---------------------------- MODULE Spec2Model ----------------------------
(***************************************************************************)
(* Model of network/network_diagnostics.py: the four probe executors       *)
(* (ping_host, check_port, traceroute, dns_lookup), the coordinator        *)
(* comprehensive_test with its three thread pools, and main's mode switch. *)
(*                                                                         *)
(* Text is modelled as sequences of one-character strings, an output of a  *)
(* process as a sequence of lines.  Floating point numbers are modelled by *)
(* their value in thousandths.                                             *)
(***************************************************************************)
EXTENDS Integers, Sequences, FiniteSets, TLC

\* ------------------------------------------------------------------ bounds
MaxHosts == 2          \* longest host list given on the command line
MaxPortProbes == 2     \* most port probes (hosts x ports) of one run
PoolHosts == 6         \* hosts of the run that fills the DNS and ping pools
PoolPorts == 11        \* ports of the run that fills the port pool
MaxLines == 2          \* longest subscription file
MaxOutbounds == 2      \* most outbounds of an existing configuration

\* ------------------------------------------------------- program constants
DnsWorkers == 5
PingWorkers == 5
PortWorkers == 10
PingCount == 4         \* ping_host(count=4)
PingTimeout == 5       \* ping_host(timeout=5)
PingGrace == 10        \* subprocess.run(timeout=timeout*count+10)
TracerouteTimeout == 60  \* subprocess.run(timeout=60)

HostNames == {"a", "b"}

\* -------------------------------------------------------------------- text
Whitespace == {" ", "\t", "\n"}
Digits == {"0", "1", "2", "3", "4", "5", "6", "7", "8", "9"}

DigitVal(c) ==
    CASE c = "0" -> 0 [] c = "1" -> 1 [] c = "2" -> 2 [] c = "3" -> 3
      [] c = "4" -> 4 [] c = "5" -> 5 [] c = "6" -> 6 [] c = "7" -> 7
      [] c = "8" -> 8 [] c = "9" -> 9

\* pat in s
Contains(s, pat) ==
    \E i \in 1..(Len(s) - Len(pat) + 1) : SubSeq(s, i, i + Len(pat) - 1) = pat

\* s.split(ch): the pieces of s between the occurrences of ch
RECURSIVE Split(_, _)
Split(s, ch) ==
    IF \A i \in 1..Len(s) : s[i] # ch
    THEN <<s>>
    ELSE LET k == CHOOSE i \in 1..Len(s) :
                      s[i] = ch /\ \A j \in 1..(i - 1) : s[j] # ch
         IN  <<SubSeq(s, 1, k - 1)>> \o Split(SubSeq(s, k + 1, Len(s)), ch)

\* s.strip()
RECURSIVE Strip(_)
Strip(s) ==
    IF s = <<>> THEN s
    ELSE IF s[1] \in Whitespace THEN Strip(Tail(s))
    ELSE IF s[Len(s)] \in Whitespace THEN Strip(SubSeq(s, 1, Len(s) - 1))
    ELSE s

RECURSIVE DigitsValue(_)
DigitsValue(s) ==
    IF s = <<>> THEN 0
    ELSE 10 * DigitsValue(SubSeq(s, 1, Len(s) - 1)) + DigitVal(s[Len(s)])

AllDigits(s) == \A i \in 1..Len(s) : s[i] \in Digits

\* float(s) for the decimal notation [digits][.digits]: the value in
\* thousandths (digits after the third decimal are dropped), or a ValueError.
float(s) ==
    LET t     == Strip(s)
        parts == Split(t, ".")
        ip    == parts[1]
        fp    == IF Len(parts) = 2 THEN parts[2] ELSE <<>>
        fp3   == SubSeq(fp \o <<"0", "0", "0">>, 1, 3)
    IN  IF /\ Len(parts) <= 2
           /\ AllDigits(ip) /\ AllDigits(fp)
           /\ Len(ip) + Len(fp) > 0
        THEN [ok |-> TRUE, value |-> 1000 * DigitsValue(ip) + DigitsValue(fp3)]
        ELSE [ok |-> FALSE, value |-> 0]

Needle == <<"m","i","n","/","a","v","g","/","m","a","x">>
LineIputils == <<"r","t","t"," ","m","i","n","/","a","v","g","/","m","a","x","/","m","d","e","v"," ","="," ","1",".","2","3","4","/","5",".","6","7","8","/","9",".","0","1","2","/","0",".","1","0","0"," ","m","s">>
LineRoundTrip == <<"r","o","u","n","d","-","t","r","i","p"," ","m","i","n","/","a","v","g","/","m","a","x"," ","="," ","1",".","2","3","4","/","5",".","6","7","8","/","9",".","0","1","2"," ","m","s">>
LineLoss == <<"4"," ","p","a","c","k","e","t","s"," ","t","r","a","n","s","m","i","t","t","e","d",","," ","4"," ","r","e","c","e","i","v","e","d">>
LineNoValues == <<"r","t","t"," ","m","i","n","/","a","v","g","/","m","a","x","/","m","d","e","v"," ","="," ","n","/","a">>
LineNoEquals == <<"m","i","n","/","a","v","g","/","m","a","x"," ","u","n","k","n","o","w","n">>

\* The outputs a ping process can write, by name; Text gives the lines
\* (result.stdout.split('\n')).
Outputs == {"iputils", "roundtrip", "nostats", "novalues", "noequals"}

Text(name) ==
    CASE name = "iputils"   -> <<LineLoss, LineIputils>>
      [] name = "roundtrip" -> <<LineLoss, LineRoundTrip>>
      [] name = "nostats"   -> <<LineLoss>>
      [] name = "novalues"  -> <<LineLoss, LineNoValues>>
      [] name = "noequals"  -> <<LineNoEquals>>

\* -------------------------------------------------------------- exceptions
\* The classes of the exceptions the collaborators raise, with their bases.
Bases(exc) ==
    CASE exc = "TimeoutExpired"    -> {"TimeoutExpired", "SubprocessError", "Exception"}
      [] exc = "FileNotFoundError" -> {"FileNotFoundError", "OSError", "Exception"}
      [] exc = "gaierror"          -> {"gaierror", "OSError", "Exception"}
      [] exc = "OSError"           -> {"OSError", "Exception"}
      [] exc = "ValueError"        -> {"ValueError", "Exception"}
      [] exc = "IndexError"        -> {"IndexError", "LookupError", "Exception"}
      [] exc = "OverflowError"     -> {"OverflowError", "ArithmeticError", "Exception"}
      [] exc = "KeyError"          -> {"KeyError", "LookupError", "Exception"}

IsInstance(exc, cls) == cls \in Bases(exc)

\* str(e)
Str(exc) ==
    CASE exc = "TimeoutExpired"    -> "timed out"
      [] exc = "FileNotFoundError" -> "No such file or directory"
      [] exc = "gaierror"          -> "Name or service not known"
      [] exc = "OSError"           -> "Too many open files"
      [] exc = "ValueError"        -> "could not convert string to float"
      [] exc = "IndexError"        -> "list index out of range"
      [] exc = "OverflowError"     -> "port must be 0-65535"
      [] exc = "KeyError"          -> "key"

\* What a call ends with: a returned value, or a raised exception.
NoValue == [status |-> "none"]
Return(v) == [exc |-> "None", val |-> v]
Raise(e) == [exc |-> e, val |-> NoValue]

\* ---------------------------------------------------- collaborator behaviour
\* subprocess.run of ping: the process could not be launched, did not exit
\* within the limit, or exited with a status, having written stdout and stderr.
PingRun(rc, stdout, stderr) ==
    [launched |-> TRUE, exited |-> TRUE, returncode |-> rc, stdout |-> stdout,
     stderr |-> stderr]

\* The limit subprocess.run gives the ping process, in seconds.
PingDeadline == PingTimeout * PingCount + PingGrace

\* A ping process that needs the given number of seconds to finish: run()
\* sees it exit only if that is within the limit.
PingRunsFor(seconds) ==
    [launched |-> TRUE, exited |-> seconds <= PingDeadline, returncode |-> 0,
     stdout |-> "nostats", stderr |-> ""]

PingBehaviours ==
    {[launched |-> FALSE, exited |-> FALSE, returncode |-> 0, stdout |-> "nostats", stderr |-> ""],
     PingRunsFor(PingDeadline + 1),
     PingRunsFor(PingDeadline),
     PingRun(0, "iputils", ""),
     PingRun(0, "roundtrip", ""),
     PingRun(0, "novalues", ""),
     PingRun(0, "noequals", ""),
     PingRun(0, "nostats", ""),
     PingRun(1, "nostats", ""),
     PingRun(1, "nostats", "ping: sendmsg: Network is unreachable"),
     PingRun(1, "iputils", "")}

\* A traceroute process that needs the given number of seconds to finish.
TracerouteRunsFor(seconds) ==
    [launched |-> TRUE, exited |-> seconds <= TracerouteTimeout, returncode |-> 0,
     stdout |-> "nohops", stderr |-> ""]

TracerouteBehaviours ==
    {[launched |-> FALSE, exited |-> FALSE, returncode |-> 0, stdout |-> "nohops", stderr |-> ""],
     TracerouteRunsFor(TracerouteTimeout + 1),
     TracerouteRunsFor(TracerouteTimeout)}
    \cup [launched : {TRUE}, exited : {TRUE}, returncode : {0, 1},
          stdout : {"hops", "nohops"},
          stderr : {"", "traceroute: unknown host"}]

\* socket.gethostbyname: returns an address, raises, or never returns.
DnsBehaviours ==
    {[answered |-> TRUE, raises |-> "None", elapsed |-> 0],
     [answered |-> TRUE, raises |-> "None", elapsed |-> 12346],
     [answered |-> TRUE, raises |-> "gaierror", elapsed |-> 0],
     [answered |-> TRUE, raises |-> "OSError", elapsed |-> 0],
     [answered |-> FALSE, raises |-> "None", elapsed |-> 0]}

\* socket.socket / connect_ex: creating the socket may raise; connect_ex
\* returns 0 or an errno (111 refused, 11 timed out, 113 no route), or
\* raises (gaierror for a host that does not resolve).
ECONNREFUSED == 111
EAGAIN == 11
EHOSTUNREACH == 113
PortBehaviours ==
    {[create |-> "OSError", raises |-> "None", errno |-> 0, elapsed |-> 0],
     [create |-> "None", raises |-> "gaierror", errno |-> 0, elapsed |-> 0],
     [create |-> "None", raises |-> "None", errno |-> 0, elapsed |-> 0],
     [create |-> "None", raises |-> "None", errno |-> 0, elapsed |-> 12346],
     [create |-> "None", raises |-> "None", errno |-> ECONNREFUSED, elapsed |-> 0],
     [create |-> "None", raises |-> "None", errno |-> EAGAIN, elapsed |-> 12346],
     [create |-> "None", raises |-> "None", errno |-> EHOSTUNREACH, elapsed |-> 0]}

\* The milliseconds cut to two decimals, not rounded.
TruncMs(micros) == micros \div 10

\* round(seconds * 1000, 2) of an elapsed time given in microseconds: the
\* milliseconds, in hundredths.
RoundMs(micros) == (micros + 5) \div 10

\* ---------------------------------------------------------------- executors
\* The statistics of ping_host: the first line of the output holding
\* min/avg/max, the text after its '=' cut at '/', and the three floats; a
\* ValueError or IndexError where the code raises one.
Statistics(lines) ==
    LET stats_line == SelectSeq(lines, LAMBDA line : Contains(line, Needle))
    IN  IF stats_line = <<>> THEN [found |-> FALSE, res |-> Raise("ValueError")]
        ELSE [found |-> TRUE,
              res |->
                LET eq == Split(stats_line[1], "=")
                IN  IF Len(eq) < 2 THEN Raise("IndexError")
                    ELSE LET stats == Split(Strip(eq[2]), "/")
                         IN  IF ~float(stats[1]).ok THEN Raise("ValueError")
                             ELSE IF Len(stats) < 2 THEN Raise("IndexError")
                             ELSE IF ~float(stats[2]).ok THEN Raise("ValueError")
                             ELSE IF Len(stats) < 3 THEN Raise("IndexError")
                             ELSE IF ~float(stats[3]).ok THEN Raise("ValueError")
                             ELSE Return([min |-> float(stats[1]).value,
                                          avg |-> float(stats[2]).value,
                                          max |-> float(stats[3]).value])]

\* The statistics of each output a ping process can write.
StatisticsOf == [name \in Outputs |-> Statistics(Text(name))]

\* The try block of ping_host with the generic reason for every failure.
PingTryGenericReason(host, b) ==
    IF ~b.launched THEN Raise("FileNotFoundError")
    ELSE IF ~b.exited THEN Raise("TimeoutExpired")
    ELSE
      LET parsed == StatisticsOf[b.stdout]
          failed == [host |-> host, status |-> "failed",
                     error |-> "Host unreachable", output |-> b.stdout]
      IN  IF b.returncode = 0 /\ parsed.found
          THEN IF parsed.res.exc # "None" THEN Raise(parsed.res.exc)
               ELSE Return([host |-> host, status |-> "success",
                            min |-> parsed.res.val.min,
                            avg |-> parsed.res.val.avg,
                            max |-> parsed.res.val.max,
                            output |-> b.stdout])
          ELSE Return(failed)

\* The try block of ping_host reading the statistics whatever the exit status.
PingTryAnyExit(host, b) ==
    IF ~b.launched THEN Raise("FileNotFoundError")
    ELSE IF ~b.exited THEN Raise("TimeoutExpired")
    ELSE
      LET parsed == StatisticsOf[b.stdout]
          failed == [host |-> host, status |-> "failed",
                     error |-> IF b.stderr # "" THEN b.stderr ELSE "Host unreachable",
                     output |-> b.stdout]
      IN  IF parsed.found
          THEN IF parsed.res.exc # "None" THEN Raise(parsed.res.exc)
               ELSE Return([host |-> host, status |-> "success",
                            min |-> parsed.res.val.min,
                            avg |-> parsed.res.val.avg,
                            max |-> parsed.res.val.max,
                            output |-> b.stdout])
          ELSE Return(failed)

\* The try block of ping_host.
PingTry(host, b) ==
    IF ~b.launched THEN Raise("FileNotFoundError")
    ELSE IF ~b.exited THEN Raise("TimeoutExpired")
    ELSE
      LET parsed == StatisticsOf[b.stdout]
          failed == [host |-> host, status |-> "failed",
                     error |-> IF b.stderr # "" THEN b.stderr ELSE "Host unreachable",
                     output |-> b.stdout]
      IN  IF b.returncode = 0 /\ parsed.found
          THEN IF parsed.res.exc # "None" THEN Raise(parsed.res.exc)
               ELSE Return([host |-> host, status |-> "success",
                            min |-> parsed.res.val.min,
                            avg |-> parsed.res.val.avg,
                            max |-> parsed.res.val.max,
                            output |-> b.stdout])
          ELSE Return(failed)

\* ping_host without its `except Exception` clause.
ping_host_uncaught(host, b) ==
    LET t == PingTry(host, b)
    IN  IF t.exc = "None" THEN t
        ELSE IF IsInstance(t.exc, "TimeoutExpired")
        THEN Return([host |-> host, status |-> "timeout",
                     error |-> "Ping timeout after 20 seconds"])
        ELSE t

\* ping_host without its `except subprocess.TimeoutExpired` clause.
ping_host_no_timeout_clause(host, b) ==
    LET t == PingTry(host, b)
    IN  IF t.exc = "None" THEN t
        ELSE IF IsInstance(t.exc, "Exception")
        THEN Return([host |-> host, status |-> "error", error |-> Str(t.exc)])
        ELSE t

\* ping_host: the try block under its except clauses.
ping_host(host, b) ==
    LET t == PingTry(host, b)
    IN  IF t.exc = "None" THEN t
        ELSE IF IsInstance(t.exc, "TimeoutExpired")
        THEN Return([host |-> host, status |-> "timeout",
                     error |-> "Ping timeout after 20 seconds"])
        ELSE IF IsInstance(t.exc, "Exception")
        THEN Return([host |-> host, status |-> "error", error |-> Str(t.exc)])
        ELSE t

\* check_port measuring every connect, whatever its outcome.
PortTryTimed(host, port, b) ==
    IF b.create # "None" THEN Raise(b.create)
    ELSE IF b.raises # "None" THEN Raise(b.raises)
    ELSE Return([host |-> host, port |-> port,
                 status |-> IF b.errno = 0 THEN "open" ELSE "closed",
                 response_time |-> RoundMs(b.elapsed)])

\* The try block of check_port.
PortTry(host, port, b) ==
    IF b.create # "None" THEN Raise(b.create)
    ELSE IF b.raises # "None" THEN Raise(b.raises)
    ELSE IF b.errno = 0
    THEN Return([host |-> host, port |-> port, status |-> "open",
                 response_time |-> RoundMs(b.elapsed)])
    ELSE Return([host |-> host, port |-> port, status |-> "closed"])

check_port(host, port, b) ==
    LET t == PortTry(host, port, b)
    IN  IF t.exc = "None" THEN t
        ELSE IF IsInstance(t.exc, "Exception")
        THEN Return([host |-> host, port |-> port, status |-> "error",
                     error |-> Str(t.exc)])
        ELSE t

\* The try block of traceroute taking any exit for a success.
TracerouteTryAnyExit(host, b) ==
    IF ~b.launched THEN Raise("FileNotFoundError")
    ELSE IF ~b.exited THEN Raise("TimeoutExpired")
    ELSE Return([host |-> host, status |-> "success", output |-> b.stdout,
                 error |-> "None"])

\* The try block of traceroute.
TracerouteTry(host, b) ==
    IF ~b.launched THEN Raise("FileNotFoundError")
    ELSE IF ~b.exited THEN Raise("TimeoutExpired")
    ELSE Return([host |-> host,
                 status |-> IF b.returncode = 0 THEN "success" ELSE "failed",
                 output |-> b.stdout,
                 error |-> IF b.returncode # 0 THEN b.stderr ELSE "None"])

traceroute(host, b) ==
    LET t == TracerouteTry(host, b)
    IN  IF t.exc = "None" THEN t
        ELSE IF IsInstance(t.exc, "TimeoutExpired")
        THEN Return([host |-> host, status |-> "timeout", error |-> "Traceroute timeout"])
        ELSE IF IsInstance(t.exc, "Exception")
        THEN Return([host |-> host, status |-> "error", error |-> Str(t.exc)])
        ELSE t

\* The try block of dns_lookup (for a resolver call that returns).
DnsTry(hostname, b) ==
    IF b.raises # "None" THEN Raise(b.raises)
    ELSE Return([hostname |-> hostname, status |-> "success", ip |-> "192.0.2.1",
                 response_time |-> RoundMs(b.elapsed)])

\* dns_lookup catching the resolver's gaierror only.
dns_lookup_gaierror_only(hostname, b) ==
    LET t == DnsTry(hostname, b)
    IN  IF t.exc = "None" THEN t
        ELSE IF IsInstance(t.exc, "gaierror")
        THEN Return([hostname |-> hostname, status |-> "failed", error |-> Str(t.exc)])
        ELSE t

\* dns_lookup with its except clauses the other way round.
dns_lookup_generic_first(hostname, b) ==
    LET t == DnsTry(hostname, b)
    IN  IF t.exc = "None" THEN t
        ELSE IF IsInstance(t.exc, "Exception")
        THEN Return([hostname |-> hostname, status |-> "error", error |-> Str(t.exc)])
        ELSE IF IsInstance(t.exc, "gaierror")
        THEN Return([hostname |-> hostname, status |-> "failed", error |-> Str(t.exc)])
        ELSE t

dns_lookup(hostname, b) ==
    LET t == DnsTry(hostname, b)
    IN  IF t.exc = "None" THEN t
        ELSE IF IsInstance(t.exc, "gaierror")
        THEN Return([hostname |-> hostname, status |-> "failed", error |-> Str(t.exc)])
        ELSE IF IsInstance(t.exc, "Exception")
        THEN Return([hostname |-> hostname, status |-> "error", error |-> Str(t.exc)])
        ELSE t

\* ---------------------------------------------------------------- rendering
Has(r, f) == f \in DOMAIN r

Line(target, port, text, error, values) ==
    [target |-> target, port |-> port, text |-> text, error |-> error,
     values |-> values]

\* comprehensive_test's and main's print of a DNS result.
RenderDns(r) ==
    IF ~Has(r, "status") \/ ~Has(r, "hostname") THEN Raise("KeyError")
    ELSE IF r.status = "success"
    THEN IF Has(r, "ip") /\ Has(r, "response_time")
         THEN Return(Line(r.hostname, 0, "RESOLVED", r.ip, <<r.response_time>>))
         ELSE Raise("KeyError")
    ELSE IF Has(r, "error")
         THEN Return(Line(r.hostname, 0, "FAILED", r.error, <<>>))
         ELSE Raise("KeyError")

\* The print of a ping result, showing result['output'] for a failure.
RenderPingOutput(r) ==
    IF ~Has(r, "status") \/ ~Has(r, "host") THEN Raise("KeyError")
    ELSE IF r.status = "success"
    THEN IF Has(r, "min") /\ Has(r, "avg") /\ Has(r, "max")
         THEN Return(Line(r.host, 0, "MIN/AVG/MAX", "", <<r.min, r.avg, r.max>>))
         ELSE Raise("KeyError")
    ELSE IF Has(r, "output")
         THEN Return(Line(r.host, 0, "FAILED", r.output, <<>>))
         ELSE Raise("KeyError")

\* comprehensive_test's and main's print of a ping result.
RenderPing(r) ==
    IF ~Has(r, "status") \/ ~Has(r, "host") THEN Raise("KeyError")
    ELSE IF r.status = "success"
    THEN IF Has(r, "min") /\ Has(r, "avg") /\ Has(r, "max")
         THEN Return(Line(r.host, 0, "MIN/AVG/MAX", "", <<r.min, r.avg, r.max>>))
         ELSE Raise("KeyError")
    ELSE Return(Line(r.host, 0, "FAILED",
                     IF Has(r, "error") THEN r.error ELSE "Unknown error", <<>>))

\* comprehensive_test's print of a port result.
RenderPort(r) ==
    IF ~Has(r, "status") \/ ~Has(r, "host") \/ ~Has(r, "port") THEN Raise("KeyError")
    ELSE IF r.status = "open"
    THEN IF Has(r, "response_time")
         THEN Return(Line(r.host, r.port, "OPEN", "", <<r.response_time>>))
         ELSE Raise("KeyError")
    ELSE IF r.status = "closed"
    THEN Return(Line(r.host, r.port, "CLOSED", "", <<>>))
    ELSE Return(Line(r.host, r.port, "ERROR",
                     IF Has(r, "error") THEN r.error ELSE "Unknown", <<>>))

\* comprehensive_test's print of a traceroute result, under the
\* "Traceroute to {host}:" line of the loop's host.
RenderTraceroute(host, r) ==
    IF ~Has(r, "status") THEN Raise("KeyError")
    ELSE IF r.status = "success"
    THEN IF Has(r, "output")
         THEN Return(Line(host, 0, "OUTPUT", r.output, <<>>))
         ELSE Raise("KeyError")
    ELSE Return(Line(host, 0, "FAILED",
                     IF Has(r, "error") THEN r.error ELSE "Unknown error", <<>>))

Render(cat, host, r) ==
    CASE cat = "dns"        -> RenderDns(r)
      [] cat = "ping"       -> RenderPing(r)
      [] cat = "port"       -> RenderPort(r)
      [] cat = "traceroute" -> RenderTraceroute(host, r)

\* -------------------------------------------------------------------- state
VARIABLES
    hosts,               \* args.hosts
    ports,               \* args.ports: None, or a list
    include_traceroute,  \* args.traceroute
    ping_only,           \* args.ping_only
    dns_only,            \* args.dns_only
    pc,                  \* where the main thread is: [at, cat]; at "raised" an
                         \* executor's exception, at "crashed" a rendering
                         \* exception has ended the run
    idx,                 \* the main thread's loop position (submitting, or probing in turn)
    fut,                 \* per executor, its futures in submission order
                         \* (res: the result the main thread has yet to take)
    procs,               \* the external processes alive: <<cat, request>>
    out,                 \* the lines printed in the current section
    count,               \* per category, the results rendered so far
    sections,            \* the section headers printed so far
    call,                \* an executor function called on its own: its
                         \* arguments, its collaborator and what it returned
    gen                  \* a run of sing-box/generate_config.py: main's
                         \* command line, files and local variables

vars == <<hosts, ports, include_traceroute, ping_only, dns_only, pc, idx, fut,
          procs, out, count, sections, call, gen>>

args == <<hosts, ports, include_traceroute, ping_only, dns_only>>

PoolCats == {"dns", "ping", "port"}
Cats == PoolCats \cup {"traceroute"}
ProcessCats == {"ping", "traceroute"}

At(at, cat) == [at |-> at, cat |-> cat]

\* A thread per request.
ThreadPerRequest(cat) == Len(fut[cat])

\* ThreadPoolExecutor(max_workers=...)
MaxWorkers(cat) ==
    CASE cat = "dns"  -> DnsWorkers
      [] cat = "ping" -> PingWorkers
      [] cat = "port" -> PortWorkers

Behaviours(cat) ==
    CASE cat = "dns"        -> DnsBehaviours
      [] cat = "ping"       -> PingBehaviours
      [] cat = "port"       -> PortBehaviours
      [] cat = "traceroute" -> TracerouteBehaviours

\* A collaborator that answers at once, and well.
Healthy(cat) ==
    CASE cat = "dns"  -> {[answered |-> TRUE, raises |-> "None", elapsed |-> 0]}
      [] cat = "ping" -> {[launched |-> TRUE, exited |-> TRUE, returncode |-> 0,
                           stdout |-> "iputils", stderr |-> ""]}
      [] cat = "port" -> {[create |-> "None", raises |-> "None", errno |-> 0,
                           elapsed |-> 0]}

\* subprocess.run without its timeout: a process that never exits is waited
\* for for ever.
ReturnsIfItEnds(cat, b) ==
    IF cat = "dns" THEN b.answered
    ELSE IF cat \in ProcessCats THEN b.exited
    ELSE TRUE

\* Whether the collaborator's call comes back at all (a subprocess.run with a
\* timeout and a connect under settimeout always do; gethostbyname need not).
Returns(cat, b) == IF cat = "dns" THEN b.answered ELSE TRUE

\* Whether Popen started a process.
Launches(cat, b) == IF cat \in ProcessCats THEN b.launched ELSE TRUE

\* A timeout that leaves the child running.
AliveAfterTimeout(cat, b) == cat \in ProcessCats /\ ~b.exited

\* Whether the process is still alive once subprocess.run has returned or
\* raised: run() kills and reaps the child when the timeout expires.
AliveAfterRun(cat, b) == FALSE

\* The executor function called with the loop variable as it is when the
\* worker runs, not as it was at submit: every call sees the last host.
ExecLateBound(cat, f, b) ==
    LET last == IF hosts = <<>> THEN f.host ELSE hosts[Len(hosts)]
    IN  CASE cat = "dns"        -> dns_lookup(last, b)
          [] cat = "ping"       -> ping_host(last, b)
          [] cat = "port"       -> check_port(last, f.port, b)
          [] cat = "traceroute" -> traceroute(last, b)

\* The executor function of a category, called for request f.
Exec(cat, f, b) ==
    CASE cat = "dns"        -> dns_lookup(f.host, b)
      [] cat = "ping"       -> ping_host(f.host, b)
      [] cat = "port"       -> check_port(f.host, f.port, b)
      [] cat = "traceroute" -> traceroute(f.host, b)

Truthy(p) == ~p.none /\ p.list # <<>>

\* How many requests comprehensive_test submits to the executor of cat.
NumRequests(cat) ==
    IF cat = "port" THEN Len(hosts) * Len(ports.list) ELSE Len(hosts)

\* The k-th request submitted to cat: `for host in hosts` and, for ports,
\* `for host in hosts: for port in ports`.
Request(cat, k) ==
    IF cat = "port"
    THEN [host |-> hosts[((k - 1) \div Len(ports.list)) + 1],
          port |-> ports.list[((k - 1) % Len(ports.list)) + 1]]
    ELSE [host |-> hosts[k], port |-> 0]

Future(req) == [host |-> req.host, port |-> req.port, st |-> "queued",
                res |-> Return(NoValue)]

Running(cat) == {i \in 1..Len(fut[cat]) : fut[cat][i].st \in {"running", "hung"}}
Queued(cat) == {i \in 1..Len(fut[cat]) : fut[cat][i].st = "queued"}

\* Futures kept in a dict keyed by host (and port): a later request for the
\* same key replaces the earlier one.
TrackedByKey(cat) ==
    {i \in 1..Len(fut[cat]) :
        \A j \in (i + 1)..Len(fut[cat]) :
            fut[cat][j].host # fut[cat][i].host \/ fut[cat][j].port # fut[cat][i].port}

\* The futures the collecting loop iterates over: the keys of dns_futures /
\* ping_futures, the elements of port_futures.
Tracked(cat) == 1..Len(fut[cat])

\* Iterating over the futures in submission order, waiting for each in turn.
InSubmissionOrder(cat) ==
    {i \in Tracked(cat) :
        /\ fut[cat][i].st = "done"
        /\ \A j \in 1..(i - 1) : fut[cat][j].st = "yielded"}

\* as_completed: the futures it can yield next.
AsCompleted(cat) == {i \in Tracked(cat) : fut[cat][i].st = "done"}

\* A loop that breaks at the first line that is not a success.
LoopBreaksOnFailure(cat) ==
    \/ \A i \in Tracked(cat) : fut[cat][i].st = "yielded"
    \/ \E k \in 1..Len(out) : out[k].text \in {"FAILED", "ERROR"}

\* The `for future in as_completed(...)` loop has run out.
LoopExhausted(cat) == \A i \in Tracked(cat) : fut[cat][i].st = "yielded"

\* Requests submitted and left behind: no collecting loop, no waiting.
LeaveAtOnce(cat) == TRUE

\* The with block can be left: the loop has run out and shutdown(wait=True)
\* has seen every worker finish.
CanLeave(cat) == LoopExhausted(cat) /\ Queued(cat) = {} /\ Running(cat) = {}

\* A collecting loop that cancels what is still queued when a result is not
\* a success.
OnResultCancelling(cat, i) ==
    [fut EXCEPT ![cat] =
        [k \in 1..Len(fut[cat]) |->
            IF k = i
            THEN [fut[cat][k] EXCEPT !.st = "yielded", !.res = Return(NoValue)]
            ELSE IF /\ fut[cat][i].res.val.status \notin {"success", "open"}
                    /\ fut[cat][k].st = "queued"
            THEN [fut[cat][k] EXCEPT !.st = "cancelled"]
            ELSE fut[cat][k]]]

\* What the collecting loop does to the futures when it has taken future i:
\* nothing but take its result (res holds a result until the loop has it).
OnResult(cat, i) == [fut EXCEPT ![cat][i].st = "yielded",
                                ![cat][i].res = Return(NoValue)]

Title(cat) ==
    CASE cat = "dns"        -> "3. DNS Resolution:"
      [] cat = "ping"       -> "4. Ping Tests:"
      [] cat = "port"       -> "5. Port Connectivity:"
      [] cat = "traceroute" -> "6. Traceroute:"

\* The port section before the ping section.
AfterSectionPortFirst(cat) ==
    CASE cat = "dns"  -> IF Truthy(ports) THEN At("header", "port")
                         ELSE At("header", "ping")
      [] cat = "port" -> At("header", "ping")
      [] cat = "ping" -> IF include_traceroute THEN At("header", "traceroute")
                         ELSE At("done", "none")
      [] cat = "traceroute" -> At("done", "none")

\* Where comprehensive_test goes after the section of cat.
RECURSIVE AfterSection(_)
AfterSection(cat) ==
    CASE cat = "dns"  -> At("header", "ping")
      [] cat = "ping" -> IF Truthy(ports) THEN At("header", "port")
                         ELSE AfterSection("port")
      [] cat = "port" -> IF include_traceroute THEN At("header", "traceroute")
                         ELSE At("done", "none")
      [] cat = "traceroute" -> At("done", "none")

\* ------------------------------------------------------------------- inputs
HostLists == UNION {[1..n -> HostNames] : n \in 0..MaxHosts}
PortList(k) == [i \in 1..k |-> 79 + i]
PortArgs == {[none |-> TRUE, list |-> <<>>]}
            \cup {[none |-> FALSE, list |-> PortList(k)] : k \in 0..MaxPortProbes}

\* ------------------------------------- sing-box/generate_config.py: inputs
\* An entry of config["outbounds"]: its tag (o.get("tag"): "None" when it
\* has none), its type and, for a selector, the tags it lists.
Outbound(tag, type, list) == [tag |-> tag, type |-> type, outbounds |-> list]

\* A line of the subscription file, by its scheme and the fragment of its URL.
Schemes == {"vless", "tuic", "http"}
Fragments == {"", "A"}
SubscriptionLines == [scheme : Schemes, fragment : Fragments]
Subscriptions == UNION {[1..n -> SubscriptionLines] : n \in 0..MaxLines}

\* parse_vless, parse_hysteria2, parse_tuic: the tag is the fragment, or the
\* protocol's default tag.
DefaultTag(scheme) ==
    CASE scheme = "vless"     -> "vless-auto"
      [] scheme = "hysteria2" -> "hy2-auto"
      [] scheme = "tuic"      -> "tuic-auto"

ParseLine(line) ==
    Outbound(IF line.fragment # "" THEN line.fragment ELSE DefaultTag(line.scheme),
             line.scheme, <<>>)

\* parse_subscription: the outbounds of the lines with a supported
\* protocol, in the order of the file.
parse_subscription(lines) ==
    LET supported == SelectSeq(lines, LAMBDA l : l.scheme \in {"vless", "hysteria2", "tuic"})
    IN  [i \in 1..Len(supported) |-> ParseLine(supported[i])]

\* A configuration file: whether it has the key "outbounds", the list
\* under it, whether its log section is the generator's, and whether its
\* rule sets are downloaded through the proxy URL.
Config(has, list, log, rule_set) ==
    [has_outbounds |-> has, outbounds |-> list, log |-> log, rule_set |-> rule_set]

Direct == Outbound("direct", "direct", <<>>)

ExistingOutbounds ==
    {Direct,
     Outbound("proxy", "selector", <<>>),
     Outbound("proxy", "selector", <<"A">>),
     Outbound("A", "vless", <<>>),
     Outbound("vless-auto", "vless", <<>>),
     Outbound("None", "direct", <<>>)}

ExistingConfigs ==
    {Config(FALSE, <<>>, TRUE, "proxied")}
    \cup {Config(TRUE, list, TRUE, "proxied") :
            list \in UNION {[1..n -> ExistingOutbounds] : n \in 0..MaxOutbounds}}

Templates ==
    {Config(FALSE, <<>>, FALSE, "upstream"),
     Config(TRUE, <<Direct>>, FALSE, "upstream"),
     Config(TRUE, <<Outbound("proxy", "selector", <<>>), Direct>>, FALSE, "upstream")}

NoConfig == Config(FALSE, <<>>, FALSE, "none")

\* next((o for o in config["outbounds"] if o.get("tag") == "proxy" and
\* o.get("type") == "selector"), None): the position of the first, or 0.
ProxySelector(config) ==
    LET found == {i \in 1..Len(config.outbounds) :
                     /\ config.outbounds[i].tag = "proxy"
                     /\ config.outbounds[i].type = "selector"}
    IN  IF found = {} THEN 0
        ELSE CHOOSE i \in found : \A j \in found : i <= j

\* {o.get("tag") for o in config.get("outbounds", [])}
TagsOf(config) == {config.outbounds[i].tag : i \in 1..Len(config.outbounds)}

\* [o["tag"] for o in new_outbounds]
TagList(list) == [i \in 1..Len(list) |-> list[i].tag]

\* The loop of the append branch without existing_tags.add.
TagsNotRecorded(tags, outbound) == tags

\* existing_tags.add(outbound["tag"])
TagsWith(tags, outbound) == tags \cup {outbound.tag}

\* An invocation of main: the command line, the files it names, and main's
\* local variables.
Invocation(append, exists, subscription, template, existing, run, first) ==
    [pc |-> "start", append_mode |-> append, exists |-> exists,
     subscription |-> subscription, template |-> template, existing |-> existing,
     new_outbounds |-> <<>>, mode |-> "none", input |-> NoConfig,
     config |-> NoConfig, existing_tags |-> {}, proxy_selector |-> 0, k |-> 1,
     added_count |-> 0, run |-> run, first_added |-> first]

\* generate_config.py is not running.
NoGen == [pc |-> "off"]

\* No executor function is being called on its own.
NoCall == [st |-> "idle"]

InitRest ==
    /\ idx = 1
    /\ fut = [c \in PoolCats |-> <<>>]
    /\ procs = {}
    /\ out = <<>>
    /\ count = [c \in Cats |-> 0]
    /\ sections = <<>>
    /\ call = NoCall
    /\ gen = NoGen

\* main() with a command line, or comprehensive_test called with no host.
Init ==
    /\ hosts \in HostLists
    /\ ports \in PortArgs
    /\ Len(hosts) * Len(ports.list) <= MaxPortProbes
    /\ include_traceroute \in BOOLEAN
    /\ ping_only \in BOOLEAN
    /\ dns_only \in BOOLEAN
    /\ hosts = <<>> => ~ping_only /\ ~dns_only
    /\ pc = IF hosts = <<>> THEN At("report", "none") ELSE At("main", "none")
    /\ InitRest

\* ------------------------------------------------------------------ actions
\* main without its mode switch: the comprehensive test whatever the flags.
MainComprehensive ==
    /\ pc.at = "main"
    /\ sections' = sections
    /\ pc' = At("report", "none")
    /\ idx' = 1
    /\ UNCHANGED <<args, gen, call, fut, procs, out, count>>

\* main looking at --dns-only first.
MainDnsFirst ==
    /\ pc.at = "main"
    /\ IF dns_only
       THEN /\ sections' = Append(sections, "=== DNS Lookups ===")
            /\ pc' = At("call", "dns")
       ELSE IF ping_only
       THEN /\ sections' = Append(sections, "=== Ping Tests ===")
            /\ pc' = At("call", "ping")
       ELSE /\ sections' = sections
            /\ pc' = At("report", "none")
    /\ idx' = 1
    /\ UNCHANGED <<args, gen, call, fut, procs, out, count>>

\* main: the mode switch.
Main ==
    /\ pc.at = "main"
    /\ IF ping_only
       THEN /\ sections' = Append(sections, "=== Ping Tests ===")
            /\ pc' = At("call", "ping")
       ELSE IF dns_only
       THEN /\ sections' = Append(sections, "=== DNS Lookups ===")
            /\ pc' = At("call", "dns")
       ELSE /\ sections' = sections
            /\ pc' = At("report", "none")
    /\ idx' = 1
    /\ UNCHANGED <<args, gen, call, fut, procs, out, count>>

\* comprehensive_test: the report's title.
Report ==
    /\ pc.at = "report"
    /\ sections' = Append(sections, "=== Network Diagnostics Report ===")
    /\ pc' = At("interfaces", "none")
    /\ UNCHANGED <<args, gen, call, idx, fut, procs, out, count>>

\* comprehensive_test: section 1, get_network_interfaces and its print.
Interfaces ==
    /\ pc.at = "interfaces"
    /\ \E ok \in BOOLEAN :
         out' = <<Line("interfaces", 0, IF ok THEN "OUTPUT" ELSE "Error", "", <<>>)>>
    /\ sections' = Append(sections, "1. Network Interfaces:")
    /\ pc' = At("routing", "none")
    /\ UNCHANGED <<args, gen, call, idx, fut, procs, count>>

\* comprehensive_test: section 2, get_routing_table and its print.
Routing ==
    /\ pc.at = "routing"
    /\ \E ok \in BOOLEAN :
         out' = <<Line("routing", 0, IF ok THEN "OUTPUT" ELSE "Error", "", <<>>)>>
    /\ sections' = Append(sections, "2. Routing Table:")
    /\ pc' = At("header", "dns")
    /\ UNCHANGED <<args, gen, call, idx, fut, procs, count>>

\* comprehensive_test: a section's header; its executor is created, or the
\* traceroute loop entered.
Header(cat) ==
    /\ pc = At("header", cat)
    /\ sections' = Append(sections, Title(cat))
    /\ out' = <<>>
    /\ idx' = 1
    /\ pc' = IF cat = "traceroute"
             THEN (IF hosts = <<>> THEN At("done", "none") ELSE At("call", cat))
             ELSE (IF NumRequests(cat) = 0 THEN At("collect", cat)
                   ELSE At("submit", cat))
    /\ UNCHANGED <<args, gen, call, fut, procs, count>>

\* executor.submit: one more future, queued.
Submit(cat) ==
    /\ pc = At("submit", cat)
    /\ fut' = [fut EXCEPT ![cat] = Append(@, Future(Request(cat, idx)))]
    /\ idx' = idx + 1
    /\ pc' = IF idx = NumRequests(cat) THEN At("collect", cat) ELSE pc
    /\ UNCHANGED <<args, gen, call, procs, out, count, sections>>

\* A worker of the pool takes the oldest queued request and calls the
\* executor function; a process that cannot be launched ends the call at once.
Start(cat, i, B) ==
    /\ fut[cat][i].st = "queued"
    /\ \A j \in 1..(i - 1) : fut[cat][j].st # "queued"
    /\ Cardinality(Running(cat)) < MaxWorkers(cat)
    /\ \E b \in B :
         IF Launches(cat, b)
         THEN /\ fut' = [fut EXCEPT ![cat][i].st = "running"]
              /\ procs' = IF cat \in ProcessCats THEN procs \cup {<<cat, i>>} ELSE procs
         ELSE /\ fut' = [fut EXCEPT ![cat][i].st = "done",
                                    ![cat][i].res = Exec(cat, fut[cat][i], b)]
              /\ procs' = procs
    /\ UNCHANGED <<args, gen, call, pc, idx, out, count, sections>>

\* The collaborator's call of a running request ends and the executor
\* function returns (or the resolver never answers, and it never does).
Complete(cat, i, B) ==
    /\ i \in 1..Len(fut[cat])
    /\ fut[cat][i].st = "running"
    /\ \E b \in B :
         /\ Launches(cat, b)
         /\ IF Returns(cat, b)
            THEN /\ fut' = [fut EXCEPT ![cat][i].st = "done",
                                       ![cat][i].res = Exec(cat, fut[cat][i], b)]
                 /\ procs' = (procs \ {<<cat, i>>})
                               \cup (IF AliveAfterRun(cat, b) THEN {<<cat, i>>} ELSE {})
            ELSE /\ fut' = [fut EXCEPT ![cat][i].st = "hung"]
                 /\ procs' = procs
    /\ UNCHANGED <<args, gen, call, pc, idx, out, count, sections>>

\* The collecting loop: as_completed yields future i, future.result() and
\* the print of its line.
Yield(cat, i) ==
    /\ pc = At("collect", cat)
    /\ ~LoopExhausted(cat)
    /\ i \in AsCompleted(cat)
    /\ LET o == fut[cat][i].res
           l == Render(cat, fut[cat][i].host, o.val)
       IN  IF o.exc # "None"
           THEN /\ pc' = At("raised", cat)
                /\ UNCHANGED <<out, count>>
           ELSE IF l.exc # "None"
           THEN /\ pc' = At("crashed", cat)
                /\ UNCHANGED <<out, count>>
           ELSE /\ out' = Append(out, l.val)
                /\ count' = [count EXCEPT ![cat] = @ + 1]
                /\ pc' = pc
    /\ fut' = OnResult(cat, i)
    /\ UNCHANGED <<args, gen, call, idx, procs, sections>>

\* The loop has run out and the with block is left; the section's rule is
\* printed.
ExitPool(cat) ==
    /\ pc = At("collect", cat)
    /\ CanLeave(cat)
    /\ pc' = AfterSection(cat)
    /\ UNCHANGED <<args, gen, call, idx, fut, procs, out, count, sections>>

\* The main thread has a result of the probe it ran itself: it prints the
\* line and goes on to the next host.
Deliver(cat, o) ==
    LET l == Render(cat, hosts[idx], o.val)
    IN  IF o.exc # "None"
        THEN /\ pc' = At("raised", cat)
             /\ UNCHANGED <<idx, out, count>>
        ELSE IF l.exc # "None"
        THEN /\ pc' = At("crashed", cat)
             /\ UNCHANGED <<idx, out, count>>
        ELSE /\ out' = Append(out, l.val)
             /\ count' = [count EXCEPT ![cat] = @ + 1]
             /\ idx' = idx + 1
             /\ pc' = IF idx = Len(hosts) THEN At("done", "none")
                      ELSE At("call", cat)

\* The main thread calls an executor function itself (ping-only, dns-only,
\* the traceroute loop): the collaborator is called.
SeqCall(cat, B) ==
    /\ pc = At("call", cat)
    /\ \E b \in B :
         IF Launches(cat, b)
         THEN /\ pc' = At("wait", cat)
              /\ procs' = IF cat \in ProcessCats THEN procs \cup {<<cat, idx>>} ELSE procs
              /\ UNCHANGED <<idx, out, count>>
         ELSE /\ Deliver(cat, Exec(cat, Request("seq", idx), b))
              /\ procs' = procs
    /\ UNCHANGED <<args, gen, call, fut, sections>>

\* The collaborator's call ends and the executor function returns to the
\* main thread (or the resolver never answers).
SeqReturn(cat, B) ==
    /\ pc = At("wait", cat)
    /\ \E b \in B :
         /\ Launches(cat, b)
         /\ IF Returns(cat, b)
            THEN /\ Deliver(cat, Exec(cat, Request("seq", idx), b))
                 /\ procs' = (procs \ {<<cat, idx>>})
                               \cup (IF AliveAfterRun(cat, b) THEN {<<cat, idx>>} ELSE {})
            ELSE /\ pc' = At("hung", cat)
                 /\ UNCHANGED <<idx, procs, out, count>>
    /\ UNCHANGED <<args, gen, call, fut, sections>>

Next ==
    \/ Main
    \/ Report
    \/ Interfaces
    \/ Routing
    \/ \E cat \in Cats : Header(cat)
    \/ \E cat \in PoolCats : Submit(cat)
    \/ \E cat \in PoolCats : \E i \in 1..Len(fut[cat]) : Start(cat, i, Behaviours(cat))
    \/ \E cat \in PoolCats : \E i \in 1..Len(fut[cat]) : Complete(cat, i, Behaviours(cat))
    \/ \E cat \in PoolCats : \E i \in 1..Len(fut[cat]) : Yield(cat, i)
    \/ \E cat \in PoolCats : ExitPool(cat)
    \/ \E cat \in Cats \ {"port"} : SeqCall(cat, Behaviours(cat))
    \/ \E cat \in Cats \ {"port"} : SeqReturn(cat, Behaviours(cat))

Spec == Init /\ [][Next]_vars

\* The runs on which the pools fill, every collaborator answering well:
\* PoolHosts hosts and no port, or one host and PoolPorts times the same port.
PoolInit ==
    /\ \/ /\ hosts = [i \in 1..PoolHosts |-> "a"]
          /\ ports = [none |-> TRUE, list |-> <<>>]
       \/ /\ hosts = <<"a">>
          /\ ports = [none |-> FALSE, list |-> [i \in 1..PoolPorts |-> 80]]
    /\ include_traceroute = FALSE
    /\ ping_only = FALSE
    /\ dns_only = FALSE
    /\ pc = At("main", "none")
    /\ InitRest

NextPool ==
    \/ Main
    \/ Report
    \/ Interfaces
    \/ Routing
    \/ \E cat \in PoolCats : Header(cat)
    \/ \E cat \in PoolCats : Submit(cat)
    \/ \E cat \in PoolCats : \E i \in 1..Len(fut[cat]) : Start(cat, i, Healthy(cat))
    \/ \E cat \in PoolCats : \E i \in 1..Len(fut[cat]) : Complete(cat, i, Healthy(cat))
    \/ \E cat \in PoolCats : \E i \in 1..Len(fut[cat]) : Yield(cat, i)
    \/ \E cat \in PoolCats : ExitPool(cat)

PoolSpec == PoolInit /\ [][NextPool]_vars

\* ------------------------------------------------- one executor on its own
\* An executor function called directly, for any host (and port) and any
\* behaviour of its collaborator.
ExecInit ==
    /\ hosts = <<>>
    /\ ports = [none |-> TRUE, list |-> <<>>]
    /\ include_traceroute = FALSE
    /\ ping_only = FALSE
    /\ dns_only = FALSE
    /\ pc = At("idle", "none")
    /\ InitRest

\* Whether check_port has a socket: socket.socket() returned one.
SocketMade(fn, b) == fn = "port" /\ b.create = "None"

\* The socket when check_port returns.  sock.close() is reached only when
\* neither settimeout nor connect_ex raised; on the except path nothing
\* closes the socket, which is open until the garbage collector finalises
\* it, at a time the program does not decide.
SocketAfter(fn, b) ==
    IF ~SocketMade(fn, b) THEN {"none"}
    ELSE IF b.raises = "None" THEN {"closed"}
    ELSE {"open", "closed"}

PortsOf(fn) == IF fn = "port" THEN {80, 443} ELSE {0}

\* The call: the collaborator is called (a process is started, a connect or
\* a resolver call begun); a process that cannot be launched ends the call.
CallExecutor(fn, host, port, b) ==
    /\ pc.at = "idle"
    /\ call.st = "idle"
    /\ call' = [st   |-> IF Launches(fn, b) THEN "running" ELSE "returned",
                fn   |-> fn, host |-> host, port |-> port, b |-> b,
                res  |-> IF Launches(fn, b) THEN Return(NoValue)
                         ELSE Exec(fn, [host |-> host, port |-> port], b),
                proc |-> fn \in ProcessCats /\ Launches(fn, b),
                sock |-> IF SocketMade(fn, b) THEN "open" ELSE "none"]
    /\ UNCHANGED <<args, gen, pc, idx, fut, procs, out, count, sections>>

\* The collaborator's call ends and the executor function returns its
\* result (or the resolver never answers and it never returns).
ReturnExecutor ==
    /\ call.st = "running"
    /\ \E s \in SocketAfter(call.fn, call.b) :
         call' = IF Returns(call.fn, call.b)
                 THEN [call EXCEPT !.st = "returned",
                                   !.res = Exec(call.fn, call, call.b),
                                   !.proc = AliveAfterRun(call.fn, call.b),
                                   !.sock = s]
                 ELSE [call EXCEPT !.st = "hung"]
    /\ UNCHANGED <<args, gen, pc, idx, fut, procs, out, count, sections>>

\* The caller drops the result; the next call can be made.
DropResult ==
    /\ call.st = "returned"
    /\ call' = NoCall
    /\ UNCHANGED <<args, gen, pc, idx, fut, procs, out, count, sections>>

NextExec ==
    \/ \E fn \in Cats : \E host \in HostNames : \E port \in PortsOf(fn) :
         \E b \in Behaviours(fn) : CallExecutor(fn, host, port, b)
    \/ ReturnExecutor
    \/ DropResult

ExecSpec == ExecInit /\ [][NextExec]_vars

\* ------------------------------------ sing-box/generate_config.py: actions
network == <<args, call, pc, idx, fut, procs, out, count, sections>>

\* generate_config.py run with a subscription and a template, and with or
\* without --append and an existing configuration.
GenInit ==
    /\ hosts = <<>>
    /\ ports = [none |-> TRUE, list |-> <<>>]
    /\ include_traceroute = FALSE
    /\ ping_only = FALSE
    /\ dns_only = FALSE
    /\ pc = At("idle", "none")
    /\ idx = 1
    /\ fut = [c \in PoolCats |-> <<>>]
    /\ procs = {}
    /\ out = <<>>
    /\ count = [c \in Cats |-> 0]
    /\ sections = <<>>
    /\ call = NoCall
    /\ \E subscription \in Subscriptions :
         \/ \E append \in BOOLEAN : \E template \in Templates :
              gen = Invocation(append, FALSE, subscription, template, NoConfig, 1, 0)
         \/ \E existing \in ExistingConfigs :
              gen = Invocation(TRUE, TRUE, subscription, NoConfig, existing, 1, 0)

\* main up to its loop: the subscription is parsed (exit 1 if it gives no
\* outbound), and the existing configuration is loaded with its tags and
\* its proxy selector, or the template is.
GenLoad ==
    /\ gen.pc = "start"
    /\ LET new == parse_subscription(gen.subscription)
       IN  IF new = <<>>
           THEN gen' = [gen EXCEPT !.pc = "exit"]
           ELSE IF gen.append_mode /\ gen.exists
           THEN IF ~gen.existing.has_outbounds
                THEN gen' = [gen EXCEPT !.pc = "raised", !.new_outbounds = new,
                                        !.mode = "append"]
                ELSE gen' = [gen EXCEPT !.pc = "append", !.new_outbounds = new,
                                        !.mode = "append",
                                        !.input = gen.existing,
                                        !.config = gen.existing,
                                        !.existing_tags = TagsOf(gen.existing),
                                        !.proxy_selector = ProxySelector(gen.existing),
                                        !.k = 1, !.added_count = 0]
           ELSE gen' = [gen EXCEPT !.pc = "replace", !.new_outbounds = new,
                                   !.mode = "replace",
                                   !.input = gen.template,
                                   !.config = gen.template]
    /\ UNCHANGED network

\* One turn of `for outbound in new_outbounds` in the append branch.
AppendStep ==
    /\ gen.pc = "append"
    /\ gen.k <= Len(gen.new_outbounds)
    /\ LET outbound == gen.new_outbounds[gen.k]
           s == gen.proxy_selector
           appended == Append(gen.config.outbounds, outbound)
       IN  IF outbound.tag \notin gen.existing_tags
           THEN gen' = [gen EXCEPT
                          !.config.outbounds =
                              IF s # 0
                              THEN [appended EXCEPT ![s].outbounds = Append(@, outbound.tag)]
                              ELSE appended,
                          !.existing_tags = TagsWith(@, outbound),
                          !.added_count = @ + 1,
                          !.k = @ + 1]
           ELSE gen' = [gen EXCEPT !.k = @ + 1]
    /\ UNCHANGED network

\* The loop of the append branch is over: the count is printed.
AppendDone ==
    /\ gen.pc = "append"
    /\ gen.k > Len(gen.new_outbounds)
    /\ gen' = [gen EXCEPT !.pc = "save"]
    /\ UNCHANGED network

\* The replace branch: every outbound is put into the template, and its tag
\* into the proxy selector, which is made at the head of the list if the
\* template has none; the log section and the rule sets are set.
Replace ==
    /\ gen.pc = "replace"
    /\ IF ~gen.config.has_outbounds
       THEN gen' = [gen EXCEPT !.pc = "raised"]
       ELSE LET extended == gen.config.outbounds \o gen.new_outbounds
                tags == TagList(gen.new_outbounds)
                s == ProxySelector([gen.config EXCEPT !.outbounds = extended])
            IN  gen' = [gen EXCEPT
                          !.config.outbounds =
                              IF s # 0
                              THEN [extended EXCEPT ![s].outbounds = @ \o tags]
                              ELSE <<Outbound("proxy", "selector", tags)>> \o extended,
                          !.config.log = TRUE,
                          !.config.rule_set = "proxied",
                          !.added_count = Len(gen.new_outbounds),
                          !.pc = "save"]
    /\ UNCHANGED network

\* The configuration is written to the output file.
Save ==
    /\ gen.pc = "save"
    /\ gen' = [gen EXCEPT !.pc = "saved",
                          !.first_added = IF gen.run = 1 THEN gen.added_count ELSE @]
    /\ UNCHANGED network

\* The generator is run again, with --append, on the file it has written
\* and the same subscription.
Rerun ==
    /\ gen.pc = "saved"
    /\ gen.run = 1
    /\ gen' = Invocation(TRUE, TRUE, gen.subscription, NoConfig, gen.config, 2,
                         gen.first_added)
    /\ UNCHANGED network

NextGen ==
    \/ GenLoad
    \/ AppendStep
    \/ AppendDone
    \/ Replace
    \/ Save
    \/ Rerun

GenSpec == GenInit /\ [][NextGen]_vars

\* Every thread that can take a step eventually takes one.
FairSpec == Spec /\ WF_vars(Next)

\* ------------------------------------------------------------------- claims
Comprehensive == ~ping_only /\ ~dns_only
Yielded(cat) == {i \in 1..Len(fut[cat]) : fut[cat][i].st = "yielded"}
Done(cat) == {i \in 1..Len(fut[cat]) : fut[cat][i].st = "done"}

\* The probes of a category in flight, in the pool or in the main thread.
InFlight(cat) ==
    (IF cat \in PoolCats THEN Running(cat) ELSE {})
    \cup (IF pc.at \in {"wait", "hung"} /\ pc.cat = cat THEN {idx} ELSE {})

Statuses(cat) ==
    CASE cat = "dns"        -> {"success", "failed", "error"}
      [] cat = "ping"       -> {"success", "failed", "timeout", "error"}
      [] cat = "port"       -> {"open", "closed", "error"}
      [] cat = "traceroute" -> {"success", "failed", "timeout", "error"}

\* C1: a run of comprehensive_test renders exactly one result per submitted
\* request: every future is the future of its own request, no future is
\* taken twice, and at the end there are |H| DNS results, |H| ping results,
\* |H|*|P| port results when P is non-empty (none otherwise) and |H|
\* traceroute results when the flag is set (none otherwise).
C1_OneResultPerRequest ==
    /\ \A cat \in PoolCats :
         /\ Len(fut[cat]) <= NumRequests(cat)
         /\ Comprehensive => count[cat] = Cardinality(Yielded(cat))
         /\ \A i \in 1..Len(fut[cat]) :
              /\ fut[cat][i].host = Request(cat, i).host
              /\ fut[cat][i].port = Request(cat, i).port
    /\ (pc.at = "done" /\ Comprehensive) =>
         /\ count["dns"] = Len(hosts)
         /\ count["ping"] = Len(hosts)
         /\ count["port"] = IF Truthy(ports) THEN Len(hosts) * Len(ports.list) ELSE 0
         /\ count["traceroute"] = IF include_traceroute THEN Len(hosts) ELSE 0

\* The end of a run over the same host twice, a port and traceroute.
C1_Witness ==
    /\ pc.at = "done" /\ Comprehensive
    /\ hosts = <<"a", "a">>
    /\ count = [dns |-> 2, ping |-> 2, port |-> 2, traceroute |-> 2]

\* C2: comprehensive_test leaves the section of a category, and returns,
\* only when every request submitted for it has produced a result that the
\* loop has taken, whatever the outcomes were.
C2_CompleteBeforeLeaving ==
    /\ \A cat \in PoolCats :
         pc.cat # cat => \A i \in 1..Len(fut[cat]) : fut[cat][i].st = "yielded"
    /\ (pc.at = "done" /\ Comprehensive) =>
         \A cat \in PoolCats :
             Len(fut[cat]) = IF cat = "port" /\ ~Truthy(ports) THEN 0
                             ELSE NumRequests(cat)

\* The DNS section is left after a failure and, after it, a success.
C2_Witness ==
    /\ pc = At("header", "ping")
    /\ Len(out) = 2
    /\ out[1].text = "FAILED"
    /\ out[2].text = "RESOLVED"

\* C3: no request is ever cancelled, and a completed request holds the
\* outcome its own executor call gives for its own target, whatever the
\* outcomes of the others; a section that is left has a result for each.
C3_Independent ==
    \A cat \in PoolCats :
        /\ \A i \in 1..Len(fut[cat]) :
             /\ fut[cat][i].st \in {"queued", "running", "hung", "done", "yielded"}
             /\ fut[cat][i].st = "done" =>
                  fut[cat][i].res \in
                      {Exec(cat, Request(cat, i), b) : b \in Behaviours(cat)}
        /\ (pc.cat # cat /\ fut[cat] # <<>>) => count[cat] = NumRequests(cat)

\* The first host's ping has failed and its line is printed; the second
\* host's ping has succeeded all the same.
C3_Witness ==
    /\ pc = At("collect", "ping")
    /\ Len(fut["ping"]) = 2
    /\ fut["ping"][1].st = "yielded"
    /\ Len(out) = 1 /\ out[1].text = "FAILED"
    /\ fut["ping"][2].st = "done"
    /\ fut["ping"][2].res.val.status = "success"

C5_BoundedPools ==
    /\ Cardinality(Running("dns")) <= 5
    /\ Cardinality(Running("ping")) <= 5
    /\ Cardinality(procs) <= 5
    /\ Cardinality(Running("port")) <= 10
    /\ \A cat \in PoolCats : pc.cat # cat => Queued(cat) = {}

\* Ten port connects in flight and an eleventh request waiting.
C5_Witness ==
    /\ Cardinality(Running("port")) = 10
    /\ Queued("port") # {}

DnsHung == pc.at = "hung" \/ \E i \in 1..Len(fut["dns"]) : fut["dns"][i].st = "hung"

\* C7 as claimed: whatever the collaborators do, the run terminates.
C7_AlwaysTerminates == <>(pc.at = "done")

\* C7, amended: ping, traceroute and the port connect are time-bounded, so a
\* probe of theirs never hangs; the DNS lookup is not, it never ends with a
\* timeout result, and the run terminates unless a resolver call never
\* returns.
C7_TimeBoundedExceptDns ==
    /\ [](\A cat \in PoolCats \ {"dns"} :
            \A i \in 1..Len(fut[cat]) : fut[cat][i].st # "hung")
    /\ [](pc.at = "hung" => pc.cat = "dns")
    /\ [](\A i \in Done("dns") : fut["dns"][i].res.val.status # "timeout")
    /\ <>(pc.at = "done" \/ DnsHung)

\* A ping whose process never exited has ended with a timeout result, its
\* process is gone, and the other ping is still running.
C7_Witness ==
    /\ Len(fut["ping"]) = 2
    /\ fut["ping"][1].st = "done"
    /\ fut["ping"][1].res.val.status = "timeout"
    /\ fut["ping"][2].st = "running"
    /\ procs = {<<"ping", 2>>}

\* C8: a process is alive only while its probe is running; a probe with a
\* result holds neither a worker nor a process; a section that is left, and
\* a run that is complete, hold no worker and no process.
C8_SlotsAndProcessesReleased ==
    /\ \A p \in procs :
         \/ /\ p[1] \in PoolCats
            /\ p[2] \in 1..Len(fut[p[1]])
            /\ fut[p[1]][p[2]].st = "running"
         \/ pc = At("wait", p[1]) /\ idx = p[2]
    /\ \A cat \in PoolCats : pc.cat # cat => Running(cat) = {} /\ Queued(cat) = {}
    /\ pc.at = "done" => procs = {}

\* A run is complete in which a traceroute timed out.
C8_Witness ==
    /\ pc.at = "done" /\ Comprehensive
    /\ \E k \in 1..Len(out) : out[k].error = "Traceroute timeout"
    /\ procs = {}

\* C9: no executor raises: every future holds a returned value with a status
\* of its category, and neither future.result() nor a call by the main
\* thread ends the run with an exception.
C9_NothingRaised ==
    /\ pc.at # "raised"
    /\ \A cat \in PoolCats :
         \A i \in Done(cat) :
             /\ fut[cat][i].res.exc = "None"
             /\ Has(fut[cat][i].res.val, "status")
             /\ fut[cat][i].res.val.status \in Statuses(cat)

\* A ping whose statistics line did not parse has returned an error result.
C9_Witness ==
    \E i \in Done("ping") :
        /\ fut["ping"][i].res.val.status = "error"
        /\ fut["ping"][i].res.val.error = Str("ValueError")

\* C10: rendering never raises, and every result taken has exactly one line.
C10_EveryResultRendered ==
    /\ pc.at # "crashed"
    /\ (pc.at = "collect") =>
         /\ Len(out) = Cardinality(Yielded(pc.cat))
         /\ count[pc.cat] = Len(out)
    /\ (pc.at \in {"call", "wait", "hung"}) =>
         /\ Len(out) = idx - 1
         /\ count[pc.cat] = Len(out)

\* The line of a ping that timed out (a result with no output field).
C10_Witness ==
    /\ pc.cat = "ping"
    /\ \E k \in 1..Len(out) :
         out[k].text = "FAILED" /\ out[k].error = "Ping timeout after 20 seconds"

\* The executor's result, once the call made on its own has returned.
Returned(fn) == call.st = "returned" /\ call.fn = fn

\* C11: latency fields are present exactly in the results of success: a ping
\* result has min, avg and max if and only if its status is success, a port
\* result has response_time if and only if its status is open, a DNS result
\* has ip and response_time if and only if its status is success; every
\* result has one status, of its category.
C11_LatencyOnlyOnSuccess ==
    call.st = "returned" =>
        LET r == call.res.val
        IN  /\ Has(r, "status")
            /\ r.status \in Statuses(call.fn)
            /\ call.fn = "ping" =>
                 \A f \in {"min", "avg", "max"} : Has(r, f) <=> r.status = "success"
            /\ call.fn = "port" =>
                 (Has(r, "response_time") <=> r.status = "open")
            /\ call.fn = "dns" =>
                 \A f \in {"ip", "response_time"} : Has(r, f) <=> r.status = "success"

\* A port connect that took its time and did not succeed: closed, and no
\* latency in the result.
C11_Witness ==
    /\ Returned("port")
    /\ call.b.elapsed > 0
    /\ call.res.val.status = "closed"
    /\ ~Has(call.res.val, "response_time")

\* The lines of the current section printed for host h and port p.
LinesFor(h, p) == {k \in 1..Len(out) : out[k].target = h /\ out[k].port = p}

\* C12: a result carries the host (and port) of the request that produced
\* it, and the lines of a section are, target by target, those of the
\* requests whose results have been taken: whatever the completion order, a
\* line is attributed to the host and port that were probed.
C12_KeyedByIdentity ==
    /\ \A cat \in PoolCats :
         \A i \in Done(cat) :
             LET r == fut[cat][i].res.val
             IN  /\ (IF cat = "dns" THEN r.hostname ELSE r.host) = Request(cat, i).host
                 /\ cat = "port" => r.port = Request(cat, i).port
    /\ (pc.at = "collect") =>
         \A f \in {[host |-> fut[pc.cat][i].host, port |-> fut[pc.cat][i].port] :
                      i \in 1..Len(fut[pc.cat])} :
             Cardinality(LinesFor(f.host, f.port))
               = Cardinality({i \in Yielded(pc.cat) :
                                 /\ fut[pc.cat][i].host = f.host
                                 /\ fut[pc.cat][i].port = f.port})
    /\ (pc.at = "collect") =>
         \A k \in 1..Len(out) :
             \E i \in Yielded(pc.cat) :
                 out[k].target = fut[pc.cat][i].host /\ out[k].port = fut[pc.cat][i].port

\* Hosts [b, a]: the ping of a, submitted second, has its line, under the
\* name a, while the ping of b is still running.
C12_Witness ==
    /\ hosts = <<"b", "a">>
    /\ pc = At("collect", "ping")
    /\ fut["ping"][1].st = "running"
    /\ fut["ping"][2].st = "yielded"
    /\ Len(out) = 1 /\ out[1].target = "a"

\* Only category cat is probed and printed, host by host, under the one
\* header given.
OnlyCategory(cat, header) ==
    /\ pc.cat \in {"none", cat}
    /\ pc.at \in {"main", "call", "wait", "hung", "done"}
    /\ \A c \in PoolCats : fut[c] = <<>>
    /\ \A c \in Cats \ {cat} : count[c] = 0
    /\ \A p \in procs : p[1] = cat
    /\ sections = IF pc.at = "main" THEN <<>> ELSE <<header>>
    /\ count[cat] = Len(out)
    /\ \A k \in 1..Len(out) :
         /\ out[k].target = hosts[k]
         /\ out[k].text \in {"MIN/AVG/MAX", "RESOLVED", "FAILED"}
    /\ pc.at = "done" => count[cat] = Len(hosts)

\* C13: with --ping-only only pings are run, one per host, and only they are
\* printed; with --dns-only and without --ping-only only DNS lookups are;
\* no other probe, no interface or routing query, is run or printed.
C13_ShortcutModes ==
    /\ ping_only => OnlyCategory("ping", "=== Ping Tests ===")
    /\ (dns_only /\ ~ping_only) => OnlyCategory("dns", "=== DNS Lookups ===")

\* Both flags, with ports and traceroute asked for: the run is over with
\* two pings and nothing else.
C13_Witness ==
    /\ ping_only /\ dns_only /\ include_traceroute /\ Truthy(ports)
    /\ pc.at = "done"
    /\ count = [dns |-> 0, ping |-> 2, port |-> 0, traceroute |-> 0]

\* C14: whatever the outcomes of the probes, no exception ends the run, and
\* a run in which every probe has an outcome reaches its normal end.
C14_ReportedNotEscalated ==
    /\ [](pc.at \notin {"raised", "crashed"})
    /\ ([](~DnsHung)) => <>(pc.at = "done")

\* A ping-only run is over: ping could not be launched for the first host
\* (an error result), and the second host answered.
C14_Witness ==
    /\ ping_only
    /\ pc.at = "done"
    /\ Len(out) = 2
    /\ out[1].text = "FAILED" /\ out[1].error = Str("FileNotFoundError")
    /\ out[2].text = "MIN/AVG/MAX"

\* C15 as claimed: a ping process that exits with status 0 having written
\* the line "round-trip min/avg/max = 1.234/5.678/9.012 ms" gives a success
\* result with min 1.234, avg 5.678 and max 9.012.
C15_RoundTripParsed ==
    (Returned("ping") /\ call.b = PingRun(0, "roundtrip", "")) =>
        /\ call.res.val.status = "success"
        /\ call.res.val.min = 1234
        /\ call.res.val.avg = 5678
        /\ call.res.val.max = 9012

\* C16: a ping process that has not exited when timeout*count+10 seconds
\* have passed gives a result with status timeout, and is gone when the
\* result is returned; a process that exits within the limit is not timed out.
C16_PingTimeout ==
    /\ (call.st = "running" /\ call.fn = "ping") => call.proc
    /\ Returned("ping") =>
         /\ ~call.proc
         /\ (call.b.launched /\ ~call.b.exited) <=> call.res.val.status = "timeout"
         /\ call.b = PingRunsFor(PingTimeout * PingCount + PingGrace + 1) =>
              call.res.val.status = "timeout"
         /\ call.b = PingRunsFor(PingTimeout * PingCount + PingGrace) =>
              call.res.val.status = "failed"

\* A ping process needed a second more than the limit: the result is a
\* timeout and the process is no more.
C16_Witness ==
    /\ Returned("ping")
    /\ call.b = PingRunsFor(PingDeadline + 1)
    /\ call.res.val.status = "timeout"
    /\ ~call.proc

\* The ping process exited with the given kind of status, and no line of
\* its output holds min/avg/max.
ExitedWithoutStatistics(zero) ==
    /\ Returned("ping")
    /\ call.b.launched /\ call.b.exited
    /\ (call.b.returncode = 0) = zero
    /\ ~StatisticsOf[call.b.stdout].found

\* C17 as claimed: a ping process that exits with status 0 and writes no
\* min/avg/max line gives a failed result whose reason is "no statistics
\* line".
C17_NoStatisticsLine ==
    ExitedWithoutStatistics(TRUE) =>
        /\ call.res.exc = "None"
        /\ call.res.val.status = "failed"
        /\ call.res.val.error = "no statistics line"

\* C18: a ping process that exits with a non-zero status and no statistics
\* line gives a failed result whose reason is its stderr text, or 'Host
\* unreachable' when that is empty; a ping that cannot be launched gives an
\* error result.
C18_NonZeroExit ==
    /\ ExitedWithoutStatistics(FALSE) =>
         /\ call.res.val.status = "failed"
         /\ call.res.val.error = IF call.b.stderr # "" THEN call.b.stderr
                                 ELSE "Host unreachable"
    /\ (Returned("ping") /\ ~call.b.launched) =>
         /\ call.res.exc = "None"
         /\ call.res.val.status = "error"

\* Ping left with status 1 and a message on stderr: failed, with that message.
C18_Witness ==
    /\ ExitedWithoutStatistics(FALSE)
    /\ call.b.stderr = "ping: sendmsg: Network is unreachable"
    /\ call.res.val.status = "failed"
    /\ call.res.val.error = "ping: sendmsg: Network is unreachable"

\* connect_ex has returned (the socket was made, and nothing was raised).
Connected == Returned("port") /\ call.b.create = "None" /\ call.b.raises = "None"

\* C19: check_port returns open exactly when the connect succeeds, with the
\* elapsed time in milliseconds rounded to two decimals, never negative; a
\* connect that is refused gives closed, with no latency.
C19_OpenOrClosed ==
    Returned("port") =>
        LET r == call.res.val
        IN  /\ r.status = "open" <=> (Connected /\ call.b.errno = 0)
            /\ r.status = "open" =>
                 /\ Has(r, "response_time")
                 /\ r.response_time >= 0
                 /\ 10 * r.response_time - 5 <= call.b.elapsed
                 /\ call.b.elapsed < 10 * r.response_time + 5
            /\ (Connected /\ call.b.errno = ECONNREFUSED) =>
                 r.status = "closed" /\ ~Has(r, "response_time")

\* A connect that succeeded after 12.346 ms: open, 12.35 ms.
C19_Witness ==
    /\ Connected
    /\ call.b.errno = 0 /\ call.b.elapsed = 12346
    /\ call.res.val.status = "open"
    /\ call.res.val.response_time = 1235

\* C20 as claimed: a connect that has neither succeeded nor been rejected
\* when the timeout expires gives a result with status timeout.
C20_PortTimeout ==
    (Connected /\ call.b.errno = EAGAIN) => call.res.val.status = "timeout"

\* C21 as claimed: every failure of the socket layer other than a refusal
\* and a timeout (the host's name does not resolve, there is no route to the
\* host) gives a result with status error and the underlying message.
C21_SocketErrors ==
    (/\ Returned("port")
     /\ \/ call.b.create # "None"
        \/ call.b.raises # "None"
        \/ call.b.errno \notin {0, ECONNREFUSED, EAGAIN}) =>
        /\ call.res.val.status = "error"
        /\ Has(call.res.val, "error")

\* C22 as claimed: however check_port ends, the socket it made is closed
\* when the result is returned.
C22_SocketReleased == Returned("port") => call.sock # "open"

\* C23: dns_lookup returns success, with the address and a non-negative
\* elapsed time, exactly when the resolver returns an address; failed, with
\* the resolver's message, exactly when it raises gaierror; error, with the
\* message, exactly when anything else is raised; one of the three, always.
C23_DnsClassified ==
    Returned("dns") =>
        LET r == call.res.val
        IN  /\ call.res.exc = "None"
            /\ r.hostname = call.host
            /\ r.status \in {"success", "failed", "error"}
            /\ r.status = "success" <=> call.b.raises = "None"
            /\ r.status = "failed" <=> call.b.raises = "gaierror"
            /\ r.status = "error" <=> call.b.raises \notin {"None", "gaierror"}
            /\ r.status = "success" =>
                 /\ r.ip = "192.0.2.1"
                 /\ r.response_time >= 0
                 /\ ~Has(r, "error")
            /\ r.status # "success" => r.error = Str(call.b.raises)

\* The resolver raised gaierror: failed, with its message.
C23_Witness ==
    /\ Returned("dns")
    /\ call.b.raises = "gaierror"
    /\ call.res.val.status = "failed"
    /\ call.res.val.error = "Name or service not known"

\* C24: traceroute returns success, with the process's output as it is,
\* exactly when the process exits with status 0; failed, with its stderr,
\* when it exits with another status; timeout when it has not exited after
\* 60 seconds, the process being gone; error when it cannot be launched.
C24_TracerouteClassified ==
    /\ (call.st = "running" /\ call.fn = "traceroute") => call.proc
    /\ Returned("traceroute") =>
         LET r == call.res.val
             b == call.b
         IN  /\ call.res.exc = "None"
             /\ ~call.proc
             /\ r.status = "success" <=> (b.launched /\ b.exited /\ b.returncode = 0)
             /\ r.status = "success" => r.output = b.stdout
             /\ (b.launched /\ b.exited /\ b.returncode # 0) =>
                  r.status = "failed" /\ r.error = b.stderr
             /\ (b.launched /\ ~b.exited) <=> r.status = "timeout"
             /\ b = TracerouteRunsFor(61) => r.status = "timeout"
             /\ b = TracerouteRunsFor(60) => r.status = "success"
             /\ ~b.launched => r.status = "error"

\* Traceroute left with status 1 having printed hops: failed, with its stderr.
C24_Witness ==
    /\ Returned("traceroute")
    /\ call.b.returncode = 1 /\ call.b.stdout = "hops"
    /\ call.res.val.status = "failed"
    /\ call.res.val.error = "traceroute: unknown host"

\* The headers a comprehensive run prints, in order.
ExpectedSections ==
    <<"=== Network Diagnostics Report ===", "1. Network Interfaces:",
      "2. Routing Table:", "3. DNS Resolution:", "4. Ping Tests:">>
    \o (IF Truthy(ports) THEN <<"5. Port Connectivity:">> ELSE <<>>)
    \o (IF include_traceroute THEN <<"6. Traceroute:">> ELSE <<>>)

\* The texts of the result lines of a category.
LineTexts(cat) ==
    CASE cat = "dns"        -> {"RESOLVED", "FAILED"}
      [] cat = "ping"       -> {"MIN/AVG/MAX", "FAILED"}
      [] cat = "port"       -> {"OPEN", "CLOSED", "ERROR"}
      [] cat = "traceroute" -> {"OUTPUT", "FAILED"}

\* C25: a comprehensive run prints its headers in the fixed order
\* interfaces, routing, DNS, ping, port (if ports), traceroute (if asked
\* for); the lines printed while a section is open are lines of that
\* section, under its header; and no ping is submitted before every DNS
\* result has been printed, whatever the workers do.
C25_SectionsInOrder ==
    Comprehensive =>
        /\ Len(sections) <= Len(ExpectedSections)
        /\ sections = SubSeq(ExpectedSections, 1, Len(sections))
        /\ pc.at = "done" => sections = ExpectedSections
        /\ pc.at \in {"submit", "collect", "call", "wait", "hung"} =>
             /\ sections[Len(sections)] = Title(pc.cat)
             /\ \A k \in 1..Len(out) : out[k].text \in LineTexts(pc.cat)
        /\ fut["ping"] # <<>> =>
             /\ count["dns"] = Len(hosts)
             /\ \A i \in 1..Len(fut["dns"]) : fut["dns"][i].st = "yielded"
             /\ \E k \in 1..Len(sections) : sections[k] = "4. Ping Tests:"
        /\ fut["port"] # <<>> => count["ping"] = Len(hosts)

\* The port section is open, sixth header, with the line of a closed port.
C25_Witness ==
    /\ pc = At("collect", "port")
    /\ Len(sections) = 6
    /\ Len(out) = 1 /\ out[1].text = "CLOSED"

\* C26: ping_host returns success only for an exit status 0 with a
\* min/avg/max line whose three fields after '=' are numbers; an exit
\* status other than 0 gives failed even with a statistics line in the
\* output; a statistics line that does not parse gives error.
C26_StatisticsOnZeroExit ==
    (Returned("ping") /\ call.b.launched /\ call.b.exited) =>
        LET r == call.res.val
            b == call.b
        IN  /\ r.status = "success" <=> (b.returncode = 0 /\ b.stdout = "iputils")
            /\ r.status = "success" => r.min = 1234 /\ r.avg = 5678 /\ r.max = 9012
            /\ b.returncode # 0 => r.status = "failed"
            /\ (b.returncode = 0 /\ b.stdout \in {"roundtrip", "novalues", "noequals"}) =>
                 r.status = "error"
            /\ (b.returncode = 0 /\ b.stdout = "nostats") => r.status = "failed"

\* Ping left with status 1 having printed its statistics: failed.
C26_Witness ==
    /\ Returned("ping")
    /\ call.b = PingRun(1, "iputils", "")
    /\ call.res.val.status = "failed"
    /\ ~Has(call.res.val, "min")

\* The modes that have run: the titles of the three modes among the headers.
ModesRun ==
    {sections[k] : k \in 1..Len(sections)}
        \cap {"=== Ping Tests ===", "=== DNS Lookups ===",
              "=== Network Diagnostics Report ==="}

\* C27: with --ping-only and --dns-only together the run is a ping-only
\* run: the hosts are pinged one at a time in the order given, no DNS
\* lookup is made, and the run ends; whatever the flags, at most one of the
\* three modes runs.
C27_PingOnlyFirst ==
    /\ Cardinality(ModesRun) <= 1
    /\ pc.at = "done" => Cardinality(ModesRun) = 1
    /\ (ping_only /\ dns_only) =>
         /\ ModesRun \subseteq {"=== Ping Tests ==="}
         /\ count["dns"] = 0
         /\ InFlight("dns") = {}
         /\ Cardinality(InFlight("ping")) <= 1
         /\ InFlight("ping") \subseteq {Len(out) + 1}
         /\ \A k \in 1..Len(out) : out[k].target = hosts[k]
         /\ pc.at \in {"main", "call", "wait", "done"}

\* Both flags: the first host's ping is printed, the second host's is running.
C27_Witness ==
    /\ ping_only /\ dns_only
    /\ pc = At("wait", "ping")
    /\ idx = 2
    /\ Len(out) = 1


\* The outbounds an append run has to add: of the parsed outbounds, in the
\* order of the subscription, the first with each tag that no outbound of
\* the existing configuration carries.
Missing(parsed, tags) ==
    LET keep == {k \in 1..Len(parsed) :
                    /\ parsed[k].tag \notin tags
                    /\ \A j \in 1..(k - 1) : parsed[j].tag # parsed[k].tag}
    IN  [i \in 1..Cardinality(keep) |->
            parsed[CHOOSE k \in keep : Cardinality({j \in keep : j <= k}) = i]]

\* C28: a run in append mode adds a parsed outbound, and its tag to the
\* proxy selector, only if no outbound of the existing configuration and no
\* outbound added earlier in the run has its tag; the outbounds that were
\* there stay as they were and where they were (the proxy selector's list
\* grows by the added tags); a second append run with the same subscription
\* on the configuration produced adds nothing.
C28_AppendOnce ==
    (gen.pc = "saved" /\ gen.mode = "append") =>
        LET old == gen.input.outbounds
            new == gen.config.outbounds
            n == Len(old)
            added == SubSeq(new, n + 1, Len(new))
            s == ProxySelector(gen.input)
        IN  /\ Len(new) >= n
            /\ added = Missing(parse_subscription(gen.subscription), TagsOf(gen.input))
            /\ \A i, j \in 1..Len(added) : added[i].tag = added[j].tag => i = j
            /\ \A i \in 1..Len(added) : added[i].tag \notin TagsOf(gen.input)
            /\ gen.added_count = Len(added)
            /\ \A i \in 1..n :
                 new[i] = IF i = s
                          THEN [old[i] EXCEPT !.outbounds = @ \o TagList(added)]
                          ELSE old[i]
            /\ [gen.config EXCEPT !.outbounds = old] = gen.input
            /\ gen.run = 2 => (gen.added_count = 0 /\ gen.config = gen.input)

\* The second append run has written its configuration; the first run, of a
\* subscription of two outbounds, added one of them and skipped the other,
\* and the configuration has a proxy selector.
C28_Witness ==
    /\ gen.pc = "saved"
    /\ gen.mode = "append"
    /\ gen.run = 2
    /\ gen.first_added = 1
    /\ Len(parse_subscription(gen.subscription)) = 2
    /\ ProxySelector(gen.config) # 0
    /\ gen.config.outbounds[ProxySelector(gen.config)].outbounds # <<>>

=============================================================================
